---- MODULE Spec2Model ----
(***************************************************************************)
(* A model of src/app.py: the WordPress multisite shop provisioning        *)
(* service (create_shop / provision_multi / setup_shop), the translation   *)
(* exchange (download_transcriptions / upload_transcriptions) and the      *)
(* slug derivation (sanitize_store_name).                                  *)
(*                                                                         *)
(* Strings that the code inspects character by character (site names,      *)
(* file names) are sequences of one-character strings.  The Docker daemon, *)
(* the commands run inside the containers, the remote template server and  *)
(* the local file system are the environment: their answers are drawn      *)
(* from small sets.                                                        *)
(***************************************************************************)
EXTENDS Integers, Sequences, FiniteSets, TLC

VARIABLES
    \* ---- the Docker daemon (client = docker.from_env(), app.py:41)
    netCount,       \* number of networks named SHARED_NETWORK
    dbCount,        \* number of containers named SHARED_DB_NAME (0 or 1)
    wpCount,        \* number of containers named SHARED_WP_NAME (0 or 1)
    \* ---- inside the application container
    cliInstalled,   \* wp-cli answers "wp --info"
    coreInstalled,  \* the multisite network core has been installed
    sites,          \* slugs of the tenant sites that exist
    options,        \* the options of each site that setup_shop writes
    zones,          \* number of shipping zones of each site (ids 1..n)
    methods,        \* <<site, zone id>> pairs that have the flat-rate method
    langDir,        \* files in /var/www/html/wp-content/languages/plugins
    \* ---- the service's host
    tmpCount,       \* temporary files made so far by NamedTemporaryFile
    \* ---- the clients and the environment
    clientNames,    \* site names the clients ask for
    clientLocales,  \* locales the clients ask for
    faultBudget,    \* commands that may still fail though they could succeed
    \* ---- create_shop requests
    pc,             \* position of each request in create_shop_endpoint
    req,            \* the ShopRequest of each request
    slug,           \* store_name computed by provision_multi
    elapsed,        \* time.time() - start inside wait_for_mysql
    waitRet,        \* what wait_for_mysql returned: "none", "True", "False"
    step,           \* index of the next setup_shop command
    trace,          \* Docker / exec calls the request has issued, in order
    failed,         \* commands of the request that exited with a status # 0
    zoneMade,       \* <<site, id>> of the zone the request created, or <<>>
    resp,           \* HTTP status of the response, 0 while none
    \* ---- translation exchange requests (one at a time)
    nOps,           \* translation requests served so far
    last,           \* the most recent translation request and its response
    lastCatalog,    \* catalog built by the most recent successful import
    \* ---- sanitize_store_name on its own
    slugIn,         \* the input name
    slugOut,        \* the derived slug, NoSlug before the call
    \* ---- wait_for_mysql on its own
    wTimeout,       \* the timeout argument
    wElapsed,       \* time.time() - start
    wProbes,        \* probes issued so far
    wSlow,          \* some probe took time
    wLastExit,      \* outcome of the most recent probe, "none" before
    wRet            \* the value returned, "none" while in the loop

dockerVars == <<netCount, dbCount, wpCount>>
wpVars == <<cliInstalled, coreInstalled, sites, options, zones, methods>>
envVars == <<clientNames, clientLocales, faultBudget>>
reqVars == <<pc, req, slug, elapsed, waitRet, step, trace, failed, zoneMade,
             resp>>
xlateVars == <<langDir, tmpCount, nOps, last, lastCatalog>>
slugVars == <<slugIn, slugOut>>
waitVars == <<wTimeout, wElapsed, wProbes, wSlow, wLastExit, wRet>>
vars == <<dockerVars, wpVars, envVars, reqVars, xlateVars, slugVars, waitVars>>

-----------------------------------------------------------------------------
(* Bounds of the model *)

MaxReqs == 2        \* create_shop requests
MaxNameLen == 4     \* length of the names given to sanitize_store_name
MaxRows == 2        \* data rows of an uploaded document
MaxOps == 2         \* translation requests in a row
MaxFaults == 1      \* injected command failures over a run of requests
MaxSetupFaults == 2 \* injected command failures in one request on its own
MaxTimeout == 12    \* largest timeout given to wait_for_mysql on its own

-----------------------------------------------------------------------------
(* Characters and sanitize_store_name (app.py:117-119) *)

Digits == {"0", "1", "2", "3", "4", "5", "6", "7", "8", "9"}
LowerLetters ==
    {"a", "b", "c", "d", "e", "f", "g", "h", "i", "j", "k", "l", "m",
     "n", "o", "p", "q", "r", "s", "t", "u", "v", "w", "x", "y", "z"}

\* the character class [a-z0-9] of the regular expression
AlnumChars == LowerLetters \cup Digits

UpperToLower ==
    [c \in {"A", "B", "C", "D", "E", "F", "G", "H", "I", "J", "K", "L", "M",
            "N", "O", "P", "Q", "R", "S", "T", "U", "V", "W", "X", "Y", "Z"} |->
        CASE c = "A" -> "a" [] c = "B" -> "b" [] c = "C" -> "c" [] c = "D" -> "d"
          [] c = "E" -> "e" [] c = "F" -> "f" [] c = "G" -> "g" [] c = "H" -> "h"
          [] c = "I" -> "i" [] c = "J" -> "j" [] c = "K" -> "k" [] c = "L" -> "l"
          [] c = "M" -> "m" [] c = "N" -> "n" [] c = "O" -> "o" [] c = "P" -> "p"
          [] c = "Q" -> "q" [] c = "R" -> "r" [] c = "S" -> "s" [] c = "T" -> "t"
          [] c = "U" -> "u" [] c = "V" -> "v" [] c = "W" -> "w" [] c = "X" -> "x"
          [] c = "Y" -> "y" [] c = "Z" -> "z"]

\* str.lower() of one character.  "I_DOT" stands for U+0130 (capital I with
\* dot above), whose lower case is the two characters "i", U+0307; "DOT_ABOVE"
\* stands for U+0307 and "E_ACUTE" for U+00E9.
LowerChar(c) ==
    IF c \in DOMAIN UpperToLower THEN <<UpperToLower[c]>>
    ELSE IF c = "I_DOT" THEN <<"i", "DOT_ABOVE">>
    ELSE <<c>>

RECURSIVE LowerStr(_)
LowerStr(s) ==
    IF s = <<>> THEN <<>> ELSE LowerChar(Head(s)) \o LowerStr(Tail(s))

RECURSIVE DropRun(_)
\* s without its leading run of characters outside [a-z0-9]
DropRun(s) ==
    IF s = <<>> \/ Head(s) \in AlnumChars THEN s ELSE DropRun(Tail(s))

RECURSIVE ReSubEach(_)
\* a mutant of ReSub: the pattern [^a-z0-9] without the "+"
ReSubEach(s) ==
    IF s = <<>> THEN <<>>
    ELSE IF Head(s) \in AlnumChars THEN <<Head(s)>> \o ReSubEach(Tail(s))
    ELSE <<"-">> \o ReSubEach(Tail(s))

RECURSIVE ReSubRuns(_)
ReSubRuns(s) ==
    IF s = <<>> THEN <<>>
    ELSE IF Head(s) \in AlnumChars THEN <<Head(s)>> \o ReSubRuns(Tail(s))
    ELSE <<"-">> \o ReSubRuns(DropRun(s))

\* re.sub(r"[^a-z0-9]+", "-", s): every maximal run of characters outside
\* [a-z0-9] becomes one "-"
ReSub(s) ==
    ReSubRuns(s)

RECURSIVE LStrip(_)
LStrip(s) ==
    IF s # <<>> /\ Head(s) = "-" THEN LStrip(Tail(s)) ELSE s

RECURSIVE RStrip(_)
RStrip(s) ==
    IF s # <<>> /\ s[Len(s)] = "-" THEN RStrip(SubSeq(s, 1, Len(s) - 1)) ELSE s

\* str.strip("-")
Strip(s) ==
    RStrip(LStrip(s))

\* the fallback constant "site"
SITE == <<"s", "i", "t", "e">>

sanitize_store_name(name) ==
    LET t == Strip(ReSub(LowerStr(name)))
    IN  IF t = <<>> THEN SITE ELSE t

-----------------------------------------------------------------------------
(* create_shop: the requests and what the environment may answer *)

Reqs == 1..MaxReqs

\* ShopRequest.tenant_mode (app.py:106); "single" is any value but "multi"
Modes == {"multi", "single"}

\* ShopRequest.site_name: two names with the same slug and one with another
SiteNames == {<<"A", "!">>, <<"a">>, <<"b">>}

\* the keys of PAYMENT_LABELS (app.py:56-89)
PaymentLocales == {"en_US", "zh_TW", "zh_CN", "zh_HK"}

\* ShopRequest.locale: the four keys and a locale that is none of them
Locales == PaymentLocales \cup {"fr_FR"}

NoReq == [mode |-> "none", name |-> <<>>, locale |-> "none"]

\* default timeout of wait_for_mysql, in seconds (app.py:122)
MYSQL_TIMEOUT == 120
\* time.sleep(3) after a failed probe (app.py:141)
PROBE_SLEEP == 3

\* subprocess.run of the probe: exit status 0, another status, or an exception
ProbeOutcomes == {"exit0", "exit1", "raise"}
\* seconds one probe takes
ProbeDurations == {0, 3}

\* the commands of setup_shop, in the order of the code (app.py:297-337)
SetupCmds ==
    <<"theme_install", "woo_install", "importer_install", "install_pages",
      "curl_demo", "import_demo", "paypal_enabled", "paypal_title",
      "paypal_email", "cod_settings", "bacs_settings", "zone_create",
      "zone_add_method">>

\* the site a command with --url=http://localhost:8080/<slug> acts on: the
\* tenant site when it exists, otherwise the main site of the network
MAIN == <<"/">>

AllSites == {sanitize_store_name(n) : n \in SiteNames} \cup {MAIN}

\* the options setup_shop writes (app.py:313-333), and the currency option
OptionKeys ==
    {"woocommerce_paypal_settings.enabled", "woocommerce_paypal_settings.title",
     "woocommerce_paypal_settings.email", "woocommerce_cod_settings",
     "woocommerce_bacs_settings", "woocommerce_currency"}

\* the value of an option that was never written
Unset == <<>>

\* the identifier in WC_Shipping_Zones::get_zone(1) (app.py:337)
FIXED_ZONE_ID == 1

\* what the daemon may do with a create call for a name: a free name is
\* created; a taken network name is refused (409) or, on daemons that do not
\* check duplicates, created a second time; a taken container name is refused
NetCreateOutcomes(n) ==
    IF n = 0 THEN {"created"} ELSE {"duplicate", "conflict"}

ContainerCreateOutcomes(n) ==
    IF n = 0 THEN {"created"} ELSE {"conflict"}

\* a mutant of ModeSupported: every tenant mode is accepted
ModeAny(mode) ==
    TRUE

\* if req.tenant_mode != "multi": raise HTTPException(400) (app.py:420-421)
ModeSupported(mode) ==
    mode = "multi"

\* a mutant of NeedCreate: create whatever the get reported
CreateAlways(found) ==
    TRUE

\* try: get(name) / except docker.errors.NotFound: create
\* (app.py:236-239, 242-245, 263-266)
NeedCreate(found) ==
    ~found

\* a mutant of GateOpen: the result of wait_for_mysql is ignored
GateAlwaysOpen(ready) ==
    TRUE

\* if not wait_for_mysql(...): raise HTTPException(500) (app.py:259-260)
GateOpen(ready) ==
    ready

\* a mutant of LoopContinues: the bound is inclusive
LoopContinuesInclusive(e, timeout) ==
    e <= timeout

\* while time.time() - start < timeout (app.py:125)
LoopContinues(e, timeout) ==
    e < timeout

\* subprocess.run(...).returncode == 0; an exception is swallowed
\* (app.py:137-140)
ProbeSucceeded(outcome) ==
    outcome = "exit0"

\* a mutant of Raises: a non-zero exit status aborts the request
RaisesOnError(exit_code) ==
    exit_code # 0

\* run_wp_cli logs a non-zero exit status and returns the output
\* (app.py:151-156): it raises nothing
Raises(exit_code) ==
    FALSE

\* if container.exec_run("wp --info ...").exit_code != 0 (app.py:161)
NeedInstall(exit_code) ==
    exit_code # 0

\* what "wp core is-installed" may print: wp-cli prints nothing and answers
\* by its exit status; a tool that prints the sentence does so when the core
\* is installed
IsInstalledOutputs(installed) ==
    IF installed THEN {"", "WordPress is installed"} ELSE {""}

\* "WordPress is installed" in output (app.py:180)
SaysInstalled(output) ==
    output = "WordPress is installed"

\* the exit statuses a command may have: one that cannot succeed fails, one
\* that can succeed fails only while the environment has failures left
ExitCodes(canSucceed) ==
    {e \in {0, 1} : /\ e = 0 => canSucceed
                    /\ e = 1 => (~canSucceed \/ faultBudget > 0)}

\* PAYMENT_LABELS.get(locale, PAYMENT_LABELS["en_US"]) (app.py:309)
LabelsFor(locale) ==
    IF locale \in PaymentLocales THEN locale ELSE "en_US"

\* the <<option key, value>> pairs a setup_shop command writes when it
\* succeeds (app.py:313-333); req.company is absent
OptionWrites(cmd, locale) ==
    CASE cmd = "paypal_enabled" ->
            {<<"woocommerce_paypal_settings.enabled", <<"yes">>>>}
      [] cmd = "paypal_title" ->
            {<<"woocommerce_paypal_settings.title",
               <<LabelsFor(locale), "paypal_title">>>>}
      [] cmd = "paypal_email" ->
            {<<"woocommerce_paypal_settings.email", <<"paypal@example.com">>>>}
      [] cmd = "cod_settings" ->
            {<<"woocommerce_cod_settings", <<LabelsFor(locale), "cod">>>>}
      [] cmd = "bacs_settings" ->
            {<<"woocommerce_bacs_settings", <<LabelsFor(locale), "bacs">>>>}
      [] OTHER -> {}

\* the options of a site after the pairs of ws have been written
WriteOptions(opts, ws) ==
    [k \in OptionKeys |->
        IF \E w \in ws : w[1] = k
        THEN (CHOOSE w \in ws : w[1] = k)[2]
        ELSE opts[k]]

\* the commands of setup_shop that go through run_wp_cli: all but the
\* download of the demo data (app.py:306)
ViaRunWpCli(cmd) ==
    cmd # "curl_demo"

Log(r, op) ==
    trace' = [trace EXCEPT ![r] = Append(@, op)]

Goto(r, where) ==
    pc' = [pc EXCEPT ![r] = where]

Fail(r, status) ==
    /\ resp' = [resp EXCEPT ![r] = status]
    /\ Goto(r, "done")

GetLabel(what, found) ==
    IF found THEN <<what, "get", "found">> ELSE <<what, "get", "NotFound">>

\* container.exec_run(cmd): the command is run in the application container
\* and exits with status e; the caller raises or goes on
Exec(r, cmd, e, canSucceed, raises, next) ==
    /\ Log(r, <<"wp", "exec", cmd>>)
    /\ failed' = [failed EXCEPT ![r] = IF e = 0 THEN @ ELSE @ \cup {cmd}]
    /\ faultBudget' =
          IF e # 0 /\ canSucceed THEN faultBudget - 1 ELSE faultBudget
    /\ IF raises THEN Fail(r, 500) ELSE Goto(r, next) /\ UNCHANGED resp
    /\ UNCHANGED <<clientNames, clientLocales>>

-----------------------------------------------------------------------------
(* create_shop_endpoint (app.py:417-426) and provision_multi (app.py:231-291), *)
(* one action for each call they make                                         *)

\* create_shop_endpoint is entered: the tenant mode is checked, then
\* provision_multi computes store_name
Start(r) ==
    /\ pc[r] = "idle"
    /\ \E m \in Modes, n \in clientNames, l \in clientLocales :
        /\ req' = [req EXCEPT ![r] = [mode |-> m, name |-> n, locale |-> l]]
        /\ IF ModeSupported(m)
           THEN /\ slug' = [slug EXCEPT ![r] = sanitize_store_name(n)]
                /\ Goto(r, "net_get")
                /\ UNCHANGED resp
           ELSE /\ Fail(r, 400)
                /\ UNCHANGED slug
    /\ UNCHANGED <<dockerVars, wpVars, envVars, elapsed, waitRet, step, trace,
                   failed, zoneMade, xlateVars, slugVars, waitVars>>

\* client.networks.get(SHARED_NETWORK)
NetGet(r) ==
    /\ pc[r] = "net_get"
    /\ Log(r, GetLabel("net", netCount > 0))
    /\ Goto(r, IF NeedCreate(netCount > 0) THEN "net_create" ELSE "db_get")
    /\ UNCHANGED <<dockerVars, wpVars, envVars, req, slug, elapsed, waitRet,
                   step, failed, zoneMade, resp, xlateVars, slugVars,
                   waitVars>>

\* client.networks.create(SHARED_NETWORK, driver="bridge")
NetCreate(r) ==
    /\ pc[r] = "net_create"
    /\ \E o \in NetCreateOutcomes(netCount) :
        /\ Log(r, <<"net", "create", o>>)
        /\ IF o = "conflict"
           THEN Fail(r, 500) /\ UNCHANGED netCount
           ELSE /\ netCount' = netCount + 1
                /\ Goto(r, "db_get")
                /\ UNCHANGED resp
    /\ UNCHANGED <<dbCount, wpCount, wpVars, envVars, req, slug, elapsed,
                   waitRet, step, failed, zoneMade, xlateVars, slugVars,
                   waitVars>>

\* client.containers.get(SHARED_DB_NAME)
DbGet(r) ==
    /\ pc[r] = "db_get"
    /\ Log(r, GetLabel("db", dbCount > 0))
    /\ Goto(r, IF NeedCreate(dbCount > 0) THEN "db_create" ELSE "wait")
    /\ UNCHANGED <<dockerVars, wpVars, envVars, req, slug, elapsed, waitRet,
                   step, failed, zoneMade, resp, xlateVars, slugVars,
                   waitVars>>

\* client.containers.run(req.mysql_image, name=SHARED_DB_NAME, ...)
DbCreate(r) ==
    /\ pc[r] = "db_create"
    /\ \E o \in ContainerCreateOutcomes(dbCount) :
        /\ Log(r, <<"db", "create", o>>)
        /\ IF o = "conflict"
           THEN Fail(r, 500) /\ UNCHANGED dbCount
           ELSE /\ dbCount' = dbCount + 1
                /\ Goto(r, "wait")
                /\ UNCHANGED resp
    /\ UNCHANGED <<netCount, wpCount, wpVars, envVars, req, slug, elapsed,
                   waitRet, step, failed, zoneMade, xlateVars, slugVars,
                   waitVars>>

\* wait_for_mysql (app.py:122-142): one turn of the loop whose condition
\* time.time() - start < timeout holds: the probe, then return True or sleep
WaitProbe(r) ==
    /\ pc[r] = "wait"
    /\ LoopContinues(elapsed[r], MYSQL_TIMEOUT)
    /\ \E o \in ProbeOutcomes, d \in ProbeDurations :
        IF ProbeSucceeded(o)
        THEN /\ waitRet' = [waitRet EXCEPT ![r] = "True"]
             /\ elapsed' = [elapsed EXCEPT ![r] = 0]
             /\ IF GateOpen(TRUE)
                THEN Goto(r, "wp_get") /\ UNCHANGED resp
                ELSE Fail(r, 500)
        ELSE /\ elapsed' = [elapsed EXCEPT ![r] = @ + d + PROBE_SLEEP]
             /\ UNCHANGED <<waitRet, pc, resp>>
    /\ UNCHANGED <<dockerVars, wpVars, envVars, req, slug, step, trace,
                   failed, zoneMade, xlateVars, slugVars, waitVars>>

\* wait_for_mysql: the loop condition fails, return False; provision_multi
\* raises HTTPException(500, "MySQL not ready")
WaitTimeout(r) ==
    /\ pc[r] = "wait"
    /\ ~LoopContinues(elapsed[r], MYSQL_TIMEOUT)
    /\ waitRet' = [waitRet EXCEPT ![r] = "False"]
    /\ elapsed' = [elapsed EXCEPT ![r] = 0]
    /\ IF GateOpen(FALSE)
       THEN Goto(r, "wp_get") /\ UNCHANGED resp
       ELSE Fail(r, 500)
    /\ UNCHANGED <<dockerVars, wpVars, envVars, req, slug, step, trace,
                   failed, zoneMade, xlateVars, slugVars, waitVars>>

\* wp = client.containers.get(SHARED_WP_NAME)
WpGet(r) ==
    /\ pc[r] = "wp_get"
    /\ Log(r, GetLabel("wp", wpCount > 0))
    /\ Goto(r, IF NeedCreate(wpCount > 0) THEN "wp_create" ELSE "cli_info")
    /\ UNCHANGED <<dockerVars, wpVars, envVars, req, slug, elapsed, waitRet,
                   step, failed, zoneMade, resp, xlateVars, slugVars,
                   waitVars>>

\* wp = client.containers.run(req.wp_image, name=SHARED_WP_NAME, ...)
WpCreate(r) ==
    /\ pc[r] = "wp_create"
    /\ \E o \in ContainerCreateOutcomes(wpCount) :
        /\ Log(r, <<"wp", "create", o>>)
        /\ IF o = "conflict"
           THEN Fail(r, 500) /\ UNCHANGED wpCount
           ELSE /\ wpCount' = wpCount + 1
                /\ Goto(r, "cli_info")
                /\ UNCHANGED resp
    /\ UNCHANGED <<netCount, dbCount, wpVars, envVars, req, slug, elapsed,
                   waitRet, step, failed, zoneMade, xlateVars, slugVars,
                   waitVars>>

\* ensure_wp_cli (app.py:161): the info query, which exits with status 0
\* when wp-cli is there
CliInfo(r) ==
    /\ pc[r] = "cli_info"
    /\ \E e \in ExitCodes(cliInstalled) :
        Exec(r, "info", e, cliInstalled, FALSE,
             IF NeedInstall(e) THEN "cli_install" ELSE "cli_apt")
    /\ UNCHANGED <<dockerVars, wpVars, req, slug, elapsed, waitRet, step,
                   zoneMade, xlateVars, slugVars, waitVars>>

\* ensure_wp_cli (app.py:162-168): the installation of wp-cli
CliInstall(r) ==
    /\ pc[r] = "cli_install"
    /\ \E e \in ExitCodes(TRUE) :
        /\ Exec(r, "install_cli", e, TRUE, FALSE, "cli_apt")
        /\ cliInstalled' = (cliInstalled \/ e = 0)
    /\ UNCHANGED <<dockerVars, coreInstalled, sites, options, zones, methods,
                   req, slug, elapsed, waitRet, step, zoneMade, xlateVars,
                   slugVars, waitVars>>

\* the commands ensure_wp_cli runs whatever the info query answered
\* (app.py:169-174), with the position that follows each
CliRestCmds ==
    [cli_apt |-> <<"apt_packages", "cli_mem">>,
     cli_mem |-> <<"memory_limit", "cli_php">>,
     cli_php |-> <<"php_info", "core_check">>]

\* ensure_wp_cli (app.py:169-174): the package installation, the memory
\* limit and the query of the memory limit
CliRest(r) ==
    /\ pc[r] \in DOMAIN CliRestCmds
    /\ \E e \in ExitCodes(TRUE) :
        Exec(r, CliRestCmds[pc[r]][1], e, TRUE, FALSE, CliRestCmds[pc[r]][2])
    /\ UNCHANGED <<dockerVars, wpVars, req, slug, elapsed, waitRet, step,
                   zoneMade, xlateVars, slugVars, waitVars>>

\* ensure_wp_cli(wp) (app.py:159-175)
EnsureWpCli(r) ==
    \/ CliInfo(r)
    \/ CliInstall(r)
    \/ CliRest(r)

\* ensure_network_core (app.py:180): the installation check
CoreCheck(r) ==
    /\ pc[r] = "core_check"
    /\ \E e \in ExitCodes(cliInstalled /\ coreInstalled),
          o \in IsInstalledOutputs(cliInstalled /\ coreInstalled) :
        Exec(r, "core_is_installed", e, cliInstalled /\ coreInstalled,
             Raises(e),
             IF SaysInstalled(o) THEN "rewrite" ELSE "core_install")
    /\ UNCHANGED <<dockerVars, wpVars, req, slug, elapsed, waitRet, step,
                   zoneMade, xlateVars, slugVars, waitVars>>

\* ensure_network_core (app.py:181-186): the installation of the network
CoreInstall(r) ==
    /\ pc[r] = "core_install"
    /\ \E e \in ExitCodes(cliInstalled) :
        /\ Exec(r, "core_multisite_install", e, cliInstalled, Raises(e),
                "rewrite")
        /\ coreInstalled' = (coreInstalled \/ e = 0)
    /\ UNCHANGED <<dockerVars, cliInstalled, sites, options, zones, methods,
                   req, slug, elapsed, waitRet, step, zoneMade, xlateVars,
                   slugVars, waitVars>>

\* ensure_network_core(wp, ...) (app.py:178-187)
EnsureNetworkCore(r) ==
    \/ CoreCheck(r)
    \/ CoreInstall(r)

\* enable_rewrite_for_subsites(wp) (app.py:190-207)
EnableRewrite(r) ==
    /\ pc[r] = "rewrite"
    /\ \E e \in ExitCodes(TRUE) :
        Exec(r, "htaccess", e, TRUE, FALSE, "site_create")
    /\ UNCHANGED <<dockerVars, wpVars, req, slug, elapsed, waitRet, step,
                   zoneMade, xlateVars, slugVars, waitVars>>

\* "wp site create" can succeed when the network core is installed and the
\* slug is free
SiteCreatable(s) ==
    cliInstalled /\ coreInstalled /\ s \notin sites

\* run_wp_cli(wp, "wp site create --slug=...") (app.py:285-289): the site
\* comes to exist when the command succeeds
SiteCreate(r) ==
    /\ pc[r] = "site_create"
    /\ \E e \in ExitCodes(SiteCreatable(slug[r])) :
        /\ Exec(r, "site_create", e, SiteCreatable(slug[r]), Raises(e),
                "endpoint_get")
        /\ sites' = IF e = 0 THEN sites \cup {slug[r]} ELSE sites
    /\ UNCHANGED <<dockerVars, cliInstalled, coreInstalled, options, zones,
                   methods, req, slug, elapsed, waitRet, step, zoneMade,
                   xlateVars, slugVars, waitVars>>

\* back in create_shop_endpoint: wp = client.containers.get(SHARED_WP_NAME)
\* (app.py:424); NotFound is not caught there
EndpointGet(r) ==
    /\ pc[r] = "endpoint_get"
    /\ Log(r, GetLabel("wp", wpCount > 0))
    /\ IF wpCount > 0
       THEN /\ Goto(r, "setup")
            /\ step' = [step EXCEPT ![r] = 1]
            /\ UNCHANGED resp
       ELSE Fail(r, 500) /\ UNCHANGED step
    /\ UNCHANGED <<dockerVars, wpVars, envVars, req, slug, elapsed, waitRet,
                   failed, zoneMade, xlateVars, slugVars, waitVars>>

\* the site the commands of request r act on
SetupTarget(r) ==
    IF slug[r] \in sites THEN slug[r] ELSE MAIN

\* a setup_shop command can succeed when wp-cli and the network core are
\* there (the download needs neither); attaching the method needs the zone
\* with the fixed identifier
SetupCanSucceed(cmd, t) ==
    CASE cmd = "curl_demo" -> TRUE
      [] cmd = "zone_add_method" ->
            cliInstalled /\ coreInstalled /\ zones[t] >= FIXED_ZONE_ID
      [] OTHER -> cliInstalled /\ coreInstalled

\* setup_shop (app.py:294-340): the next command of the pipeline
SetupStep(r) ==
    /\ pc[r] = "setup"
    /\ step[r] <= Len(SetupCmds)
    /\ LET cmd == SetupCmds[step[r]]
           t == SetupTarget(r)
       IN  \E e \in ExitCodes(SetupCanSucceed(cmd, t)) :
            /\ Exec(r, cmd, e, SetupCanSucceed(cmd, t),
                    ViaRunWpCli(cmd) /\ Raises(e), "setup")
            /\ options' =
                  IF e = 0
                  THEN [options EXCEPT ![t] =
                          WriteOptions(@, OptionWrites(cmd, req[r].locale))]
                  ELSE options
            /\ IF e = 0 /\ cmd = "zone_create"
               THEN /\ zones' = [zones EXCEPT ![t] = @ + 1]
                    /\ zoneMade' = [zoneMade EXCEPT ![r] = <<t, zones[t] + 1>>]
               ELSE UNCHANGED <<zones, zoneMade>>
            /\ methods' =
                  IF e = 0 /\ cmd = "zone_add_method"
                  THEN methods \cup {<<t, FIXED_ZONE_ID>>}
                  ELSE methods
    /\ step' = [step EXCEPT ![r] = @ + 1]
    /\ UNCHANGED <<dockerVars, cliInstalled, coreInstalled, sites, req, slug,
                   elapsed, waitRet, xlateVars, slugVars, waitVars>>

\* setup_shop returns its summary and create_shop_endpoint answers 200
Return(r) ==
    /\ pc[r] = "setup"
    /\ step[r] > Len(SetupCmds)
    /\ resp' = [resp EXCEPT ![r] = 200]
    /\ Goto(r, "done")
    /\ UNCHANGED <<dockerVars, wpVars, envVars, req, slug, elapsed, waitRet,
                   step, trace, failed, zoneMade, xlateVars, slugVars,
                   waitVars>>

\* one step of request r
Step(r) ==
    \/ Start(r)
    \/ NetGet(r)
    \/ NetCreate(r)
    \/ DbGet(r)
    \/ DbCreate(r)
    \/ WaitProbe(r)
    \/ WaitTimeout(r)
    \/ WpGet(r)
    \/ WpCreate(r)
    \/ EnsureWpCli(r)
    \/ EnsureNetworkCore(r)
    \/ EnableRewrite(r)
    \/ SiteCreate(r)
    \/ EndpointGet(r)
    \/ SetupStep(r)
    \/ Return(r)

NoXlate == [kind |-> "none"]
NoSlug == [done |-> FALSE, val |-> <<>>]

\* no site has been configured
ShopEmpty ==
    /\ options = [t \in AllSites |-> [k \in OptionKeys |-> Unset]]
    /\ zones = [t \in AllSites |-> 0]
    /\ methods = {}

\* what the daemon holds when the service starts: any of the three shared
\* resources may be left from an earlier run of the service; wp-cli and the
\* network core can only be there when the application container is
DockerInit ==
    /\ netCount \in {0, 1}
    /\ dbCount \in {0, 1}
    /\ wpCount \in {0, 1}
    /\ cliInstalled \in (IF wpCount = 1 THEN BOOLEAN ELSE {FALSE})
    /\ coreInstalled \in (IF wpCount = 1 /\ dbCount = 1 THEN BOOLEAN ELSE {FALSE})
    /\ sites = {}
    /\ ShopEmpty

RequestsInit ==
    /\ pc = [r \in Reqs |-> "idle"]
    /\ req = [r \in Reqs |-> NoReq]
    /\ slug = [r \in Reqs |-> <<>>]
    /\ elapsed = [r \in Reqs |-> 0]
    /\ waitRet = [r \in Reqs |-> "none"]
    /\ step = [r \in Reqs |-> 0]
    /\ trace = [r \in Reqs |-> <<>>]
    /\ failed = [r \in Reqs |-> {}]
    /\ zoneMade = [r \in Reqs |-> <<>>]
    /\ resp = [r \in Reqs |-> 0]

\* no create_shop request will be made
EnvIdle ==
    /\ clientNames = {}
    /\ clientLocales = {}
    /\ faultBudget = 0

XlateIdle ==
    /\ langDir = {}
    /\ tmpCount = 0
    /\ nOps = 0
    /\ last = NoXlate
    /\ lastCatalog = <<>>

SlugIdle ==
    /\ slugIn = <<>>
    /\ slugOut = NoSlug

\* wait_for_mysql is not called on its own
WaitIdle ==
    /\ wTimeout = MYSQL_TIMEOUT
    /\ wElapsed = 0
    /\ wProbes = 0
    /\ wSlow = FALSE
    /\ wLastExit = "none"
    /\ wRet = "none"

-----------------------------------------------------------------------------
(* Spec: create_shop requests served one after another *)

Init ==
    /\ DockerInit
    /\ RequestsInit
    /\ clientNames = SiteNames
    /\ clientLocales = {"en_US"}
    /\ faultBudget = MaxFaults
    /\ XlateIdle
    /\ SlugIdle
    /\ WaitIdle

\* request r is served once the requests before it have been answered
InTurn(r) ==
    \A q \in 1..(r - 1) : pc[q] = "done"

Next ==
    \E r \in Reqs : InTurn(r) /\ Step(r)

Spec == Init /\ [][Next]_vars

-----------------------------------------------------------------------------
(* Reading a request's trace *)

\* provision_multi was called for request r and has finished
Provisioned(r) ==
    pc[r] = "done" /\ req[r].mode = "multi"

CreatesIn(t) ==
    {i \in 1..Len(t) : t[i][2] = "create"}

\* every create call of t created its resource and directly follows a get of
\* the same resource that reported NotFound
CreatesFollowNotFound(t) ==
    \A i \in CreatesIn(t) :
        /\ t[i][3] = "created"
        /\ i > 1
        /\ t[i - 1] = <<t[i][1], "get", "NotFound">>

\* the calls of t that concern the application container
AppCalls(t) ==
    {i \in 1..Len(t) : t[i][1] = "wp"}

-----------------------------------------------------------------------------
(* C1 *)

\* C1, as stated: after every provision_multi call of a sequence of calls
\* there is exactly one shared network, one database container and one
\* application container, every create call follows a get that reported
\* NotFound, and no duplicate-creation error is raised.
C1_ExactlyOneOfEachAfterEveryCall ==
    \A r \in Reqs :
        Provisioned(r) =>
            /\ netCount = 1 /\ dbCount = 1 /\ wpCount = 1
            /\ CreatesFollowNotFound(trace[r])

\* C1, amended: there is never more than one of each; after every call there
\* is exactly one network and one database container, and exactly one
\* application container once the call got past the readiness gate; every
\* create call follows a get that reported NotFound and creates without a
\* duplicate-creation error; a call made after a successful call creates
\* nothing.
C1_IdempotentInfrastructure ==
    /\ netCount <= 1 /\ dbCount <= 1 /\ wpCount <= 1
    /\ \A r \in Reqs :
        /\ CreatesFollowNotFound(trace[r])
        /\ Provisioned(r) =>
            /\ netCount = 1 /\ dbCount = 1
            /\ (waitRet[r] = "True" => wpCount = 1 /\ resp[r] = 200)
        /\ \A q \in 1..(r - 1) : resp[q] = 200 => CreatesIn(trace[r]) = {}

\* two calls have succeeded one after the other, the first of which created
\* resources
C1_Witness ==
    /\ MaxReqs >= 2
    /\ resp[1] = 200 /\ resp[2] = 200
    /\ CreatesIn(trace[1]) # {}
    /\ Len(trace[2]) > 0

-----------------------------------------------------------------------------
(* C2 *)

\* C2: when wait_for_mysql returns False the request ends with HTTP 500 and
\* has made no call that concerns the application container (no get, no
\* create, no command run in it) and setup_shop is not entered.
C2_ReadinessGate ==
    \A r \in Reqs :
        waitRet[r] = "False" =>
            /\ pc[r] = "done"
            /\ resp[r] = 500
            /\ AppCalls(trace[r]) = {}
            /\ step[r] = 0

\* a request whose wait_for_mysql returned False, after a database container
\* was looked up
C2_Witness ==
    \E r \in Reqs :
        /\ waitRet[r] = "False"
        /\ \E i \in 1..Len(trace[r]) : trace[r][i][1] = "db"

-----------------------------------------------------------------------------
(* C9 *)

\* C9: the step that enters create_shop with a tenant mode other than "multi"
\* answers HTTP 400 and changes nothing else: no network or container is
\* looked up or created (the trace stays empty, the daemon's state is the
\* same), no command is run, no site is created; and nothing happens for
\* that request afterwards.
C9_UnsupportedModeRejected ==
    [][\A r \in Reqs :
        /\ (pc[r] = "idle" /\ pc'[r] # "idle" /\ req'[r].mode # "multi") =>
              /\ resp'[r] = 400
              /\ pc'[r] = "done"
              /\ trace'[r] = <<>>
              /\ UNCHANGED <<dockerVars, wpVars, langDir, step>>
        /\ resp[r] = 400 =>
              /\ trace[r] = <<>>
              /\ UNCHANGED <<pc[r], resp[r], trace[r], step[r]>>]_vars

\* a request with tenant mode "single" has been answered
C9_Witness ==
    \E r \in Reqs : req[r].mode = "single" /\ pc[r] = "done"

-----------------------------------------------------------------------------
(* SpecSlug: sanitize_store_name applied to every short name *)

\* characters of the names: lower-case letters, an upper-case letter, a
\* digit, the separator, a punctuation mark and U+0130
NameChars == {"s", "i", "t", "e", "A", "7", "-", "!", "I_DOT"}

Names == UNION {[1..k -> NameChars] : k \in 0..MaxNameLen}

\* nothing is provisioned and no request is made
DockerEmpty ==
    /\ netCount = 0
    /\ dbCount = 0
    /\ wpCount = 0
    /\ cliInstalled = FALSE
    /\ coreInstalled = FALSE
    /\ sites = {}
    /\ ShopEmpty

SlugInit ==
    /\ slugIn \in Names
    /\ slugOut = NoSlug
    /\ DockerEmpty
    /\ RequestsInit
    /\ EnvIdle
    /\ XlateIdle
    /\ WaitIdle

\* store_name = sanitize_store_name(req.site_name) (app.py:233)
Sanitize ==
    /\ ~slugOut.done
    /\ slugOut' = [done |-> TRUE, val |-> sanitize_store_name(slugIn)]
    /\ UNCHANGED <<slugIn, dockerVars, wpVars, envVars, reqVars, xlateVars,
                   waitVars>>

SlugNext ==
    Sanitize

SpecSlug == SlugInit /\ [][SlugNext]_vars

IsAlnum(c) ==
    c \in AlnumChars

\* the slug is not empty, is made of [a-z0-9-] and has no leading, trailing
\* or consecutive "-"
WellFormedSlug(out) ==
    /\ out # <<>>
    /\ \A i \in 1..Len(out) : out[i] \in AlnumChars \cup {"-"}
    /\ out[1] # "-"
    /\ out[Len(out)] # "-"
    /\ \A i \in 1..(Len(out) - 1) : ~(out[i] = "-" /\ out[i + 1] = "-")

\* no character of the name lower-cases to a character of [a-z0-9]
NoAlnum(name) ==
    \A i \in 1..Len(name) :
        \A j \in 1..Len(LowerChar(name[i])) : ~IsAlnum(LowerChar(name[i])[j])

\* C10, as stated: the slug is well formed and equals the fallback "site"
\* exactly when no character of the name lower-cases to [a-z0-9].
C10_FallbackExactlyWhenNoAlnum ==
    slugOut.done =>
        /\ WellFormedSlug(slugOut.val)
        /\ (slugOut.val = SITE) <=> NoAlnum(slugIn)

\* C10, amended: the slug is well formed; it is the fallback "site" whenever
\* no character of the name lower-cases to [a-z0-9]; otherwise its characters
\* of [a-z0-9] are those of the lower-cased name, in order (so it is "site"
\* only for a name that itself normalises to "site").
C10_SlugWellFormed ==
    slugOut.done =>
        /\ WellFormedSlug(slugOut.val)
        /\ NoAlnum(slugIn) => slugOut.val = SITE
        /\ ~NoAlnum(slugIn) =>
              SelectSeq(slugOut.val, IsAlnum) = SelectSeq(LowerStr(slugIn), IsAlnum)

\* a name with a run of two separators between characters that are kept, and
\* a trailing separator
C10_Witness ==
    /\ slugOut.done
    /\ slugIn = <<"A", "!", "-", "7">>
    /\ slugOut.val = <<"a", "-", "7">>

-----------------------------------------------------------------------------
(* Translation exchange: documents, catalogs and their file forms *)

\* Python's None, and what dict.get gives for a missing key
None == "<None>"

\* bool(v) of a str or None
Truthy(v) ==
    v # None /\ v # ""

\* An uploaded file body: CSV text (a header line and data lines, each a
\* sequence of cells; <<>> is a blank line) or JSON text (a list of rows or
\* something else; a row is an object or something else).
CsvBody(header, lines) ==
    [syntax |-> "csv", header |-> header, lines |-> lines,
     list |-> FALSE, rows |-> <<>>]

JsonBody(isList, rows) ==
    [syntax |-> "json", header |-> <<>>, lines |-> <<>>,
     list |-> isList, rows |-> rows]

JsonRow(isDict, original, context, translation) ==
    [dict |-> isDict, Original |-> original, Context |-> context,
     Translation |-> translation]

\* csv.DictReader's row[col]: the cell under the last header cell named col,
\* None (restval) when the header has no such cell or the line is too short
DictGet(header, line, col) ==
    LET at == {i \in 1..Len(header) : header[i] = col}
    IN  IF at = {} THEN None
        ELSE LET i == CHOOSE j \in at : \A k \in at : k <= j
             IN  IF i <= Len(line) THEN line[i] ELSE None

RECURSIVE DictRows(_, _)
\* csv.DictReader(io.StringIO(csv_content)) (app.py:352): one dict for each
\* data line that is not blank
DictRows(header, lines) ==
    IF lines = <<>> THEN <<>>
    ELSE IF Head(lines) = <<>> THEN DictRows(header, Tail(lines))
    ELSE <<JsonRow(TRUE,
                   DictGet(header, Head(lines), "Original"),
                   DictGet(header, Head(lines), "Context"),
                   DictGet(header, Head(lines), "Translation"))>>
             \o DictRows(header, Tail(lines))

\* the rows upload_csv iterates over; JSON text read as CSV has no column
\* named Original
CsvRowsOf(body) ==
    IF body.syntax = "csv" THEN DictRows(body.header, body.lines)
    ELSE <<>>

\* a mutant of KeepRow: rows are kept only when they carry a translation
KeepTranslated(row) ==
    Truthy(row.Original) /\ Truthy(row.Translation)

\* if row.get("Original"): (app.py:358, 391)
KeepRow(row) ==
    Truthy(row.Original)

\* polib.POEntry(msgid=row["Original"], msgctxt=row.get("Context") or None,
\*               msgstr=row.get("Translation") or "") (app.py:359-363)
POEntry(row) ==
    [msgid |-> row.Original,
     msgctxt |-> IF Truthy(row.Context) THEN row.Context ELSE None,
     msgstr |-> IF Truthy(row.Translation) THEN row.Translation ELSE ""]

RECURSIVE BuildCatalog(_)
\* for row in reader: if row.get("Original"): po.append(...) (app.py:357-363)
BuildCatalog(rows) ==
    IF rows = <<>> THEN <<>>
    ELSE (IF KeepRow(Head(rows)) THEN <<POEntry(Head(rows))>> ELSE <<>>)
             \o BuildCatalog(Tail(rows))

\* the result of the import of a body: ok with the catalog, or the HTTP
\* status of the failure
Built(catalog) ==
    [ok |-> TRUE, status |-> 200, catalog |-> catalog]

Refused(status) ==
    [ok |-> FALSE, status |-> status, catalog |-> <<>>]

\* upload_csv up to the catalog (app.py:351-363)
ImportCsv(body) ==
    Built(BuildCatalog(CsvRowsOf(body)))

\* upload_json up to the catalog (app.py:383-396): json.load raises on text
\* that is not JSON, a value that is not a list is refused with 400, and
\* row.get raises on a row that is not an object
ImportJson(body) ==
    IF body.syntax # "json" THEN Refused(500)
    ELSE IF ~body.list THEN Refused(400)
    ELSE IF \E i \in 1..Len(body.rows) : ~body.rows[i].dict THEN Refused(500)
    ELSE Built(BuildCatalog(body.rows))

-----------------------------------------------------------------------------
(* The text of a catalog: a sequence of lines <<kind, text...>> *)

RECURSIVE EntryLines(_)
EntryLines(catalog) ==
    IF catalog = <<>> THEN <<>>
    ELSE LET e == Head(catalog)
         IN  (IF e.msgctxt = None THEN <<>> ELSE <<<<"msgctxt", e.msgctxt>>>>)
                \o <<<<"msgid", e.msgid>>, <<"msgstr", e.msgstr>>, <<"blank">>>>
                \o EntryLines(Tail(catalog))

\* po.save(tmp_po.name) (app.py:367): the header entry with the metadata of
\* app.py:355, then the entries
SavePo(lang, catalog) ==
    <<<<"msgid", "">>, <<"msgstr", "">>, <<"meta", "Language", lang>>, <<"blank">>>>
        \o EntryLines(catalog)

\* po.save_as_mofile(tmp_mo) (app.py:368): the compiled table holds the
\* translated entries, keyed by context and source string
SaveMo(lang, catalog) ==
    [language |-> lang,
     table |-> {<<catalog[i].msgctxt, catalog[i].msgid, catalog[i].msgstr>> :
                  i \in {j \in 1..Len(catalog) : catalog[j].msgstr # ""}}]


\* copy_to_container(container, local_file, remote_dir) (app.py:210-225):
\* put_archive writes the file under its base name, over a file of that name
copy_to_container(dir, file) ==
    {g \in dir : g.name # file.name} \cup {file}

PoFile(k, lang, catalog) ==
    [name |-> <<"tmp", k, ".po">>, lines |-> SavePo(lang, catalog),
     language |-> lang, table |-> {}]

MoFile(k, lang, catalog) ==
    [name |-> <<"tmp", k, ".mo">>, lines |-> <<>>,
     language |-> SaveMo(lang, catalog).language,
     table |-> SaveMo(lang, catalog).table]

RECURSIVE ParseEntries(_)
\* the entries of a catalog text: each a msgid line and a msgstr line, after
\* an optional msgctxt line; comments, blank lines and the continuation
\* lines of the header are passed over; any other line is a syntax error
ParseEntries(lines) ==
    IF lines = <<>> THEN [ok |-> TRUE, entries |-> <<>>]
    ELSE IF Head(lines)[1] \in {"comment", "blank", "meta"}
         THEN ParseEntries(Tail(lines))
    ELSE IF /\ Head(lines)[1] = "msgctxt"
            /\ Len(lines) >= 3
            /\ lines[2][1] = "msgid"
            /\ lines[3][1] = "msgstr"
         THEN LET rest == ParseEntries(SubSeq(lines, 4, Len(lines)))
              IN  [ok |-> rest.ok,
                   entries |-> <<[msgid |-> lines[2][2], msgctxt |-> lines[1][2],
                                  msgstr |-> lines[3][2]]>> \o rest.entries]
    ELSE IF /\ Head(lines)[1] = "msgid"
            /\ Len(lines) >= 2
            /\ lines[2][1] = "msgstr"
         THEN LET rest == ParseEntries(SubSeq(lines, 3, Len(lines)))
              IN  [ok |-> rest.ok,
                   entries |-> <<[msgid |-> lines[1][2], msgctxt |-> None,
                                  msgstr |-> lines[2][2]]>> \o rest.entries]
    ELSE [ok |-> FALSE, entries |-> <<>>]

RECURSIVE DropHeader(_)
\* the entries without the first one whose msgid is empty (the metadata)
DropHeader(entries) ==
    IF entries = <<>> THEN <<>>
    ELSE IF Head(entries).msgid = "" THEN Tail(entries)
    ELSE <<Head(entries)>> \o DropHeader(Tail(entries))

\* polib.pofile(pot_data) (app.py:470); a syntax error raises
pofile(lines) ==
    LET p == ParseEntries(lines)
    IN  [ok |-> p.ok, entries |-> IF p.ok THEN DropHeader(p.entries) ELSE <<>>]

\* "msgid" in text (app.py:444, 455)
HasMarker(lines) ==
    \E i \in 1..Len(lines) :
        \/ lines[i][1] = "msgid"
        \/ lines[i][1] = "comment" /\ lines[i][2] = "msgid"

RECURSIVE LStripBlank(_)
LStripBlank(lines) ==
    IF lines # <<>> /\ Head(lines) = <<"blank">> THEN LStripBlank(Tail(lines))
    ELSE lines

RECURSIVE RStripBlank(_)
RStripBlank(lines) ==
    IF lines # <<>> /\ lines[Len(lines)] = <<"blank">>
    THEN RStripBlank(SubSeq(lines, 1, Len(lines) - 1))
    ELSE lines

\* str.strip() of a text (app.py:443)
StripText(lines) ==
    RStripBlank(LStripBlank(lines))

-----------------------------------------------------------------------------
(* download_transcriptions (app.py:429-485) *)

PotHeader ==
    <<<<"msgid", "">>, <<"msgstr", "">>, <<"meta", "Project-Id-Version", "x">>,
      <<"blank">>>>

\* texts a template source may hold: nothing, a comment, text that is no
\* catalog, a comment that mentions msgid, and three catalogs
TplComment == <<<<"comment", "x">>>>
TplJunk == <<<<"junk">>>>
TplMarkedComment == <<<<"comment", "msgid">>>>
TplA == PotHeader \o <<<<"msgid", "a">>, <<"msgstr", "">>, <<"blank">>>>
TplB == PotHeader \o
          <<<<"msgctxt", "a">>, <<"msgid", "b">>, <<"msgstr", "">>, <<"blank">>>>
TplC == PotHeader \o <<<<"msgid", "a">>, <<"msgstr", "a">>, <<"blank">>>>

Texts == {<<>>, TplComment, TplJunk, TplMarkedComment, TplA, TplB, TplC}

\* what a source answers: an exception, or a text (with the HTTP status of
\* the remote fetch)
Raised == [asked |-> TRUE, raised |-> TRUE, status |-> 0, text |-> <<>>]
Answer(status, text) ==
    [asked |-> TRUE, raised |-> FALSE, status |-> status, text |-> text]
Skipped == [asked |-> FALSE, raised |-> FALSE, status |-> 0, text |-> <<>>]

\* make-pot and cat /tmp/woocommerce.pot (app.py:437-443)
GenOutcomes == {Raised} \cup {Answer(0, t) : t \in Texts}
\* requests.get(...) (app.py:451-454)
RemoteOutcomes == {Raised, Answer(404, TplA)} \cup {Answer(200, t) : t \in Texts}
\* open("data/woocommerce.pot").read() (app.py:462-463)
LocalOutcomes == {Raised} \cup {Answer(0, t) : t \in Texts}

\* pot_data: None, or a text and the source it came from
NoPot == [set |-> FALSE, lines |-> <<>>, from |-> "none"]
Pot(lines, from) == [set |-> TRUE, lines |-> lines, from |-> from]

\* not pot_data
Falsy(pot) ==
    ~pot.set \/ pot.lines = <<>>

\* the first try block (app.py:436-447)
AfterGenerate(g) ==
    IF ~g.raised /\ HasMarker(StripText(g.text))
    THEN Pot(StripText(g.text), "generate")
    ELSE NoPot

\* if not pot_data: before the remote fetch (app.py:449)
UseRemote(pot) ==
    Falsy(pot)

\* the second try block (app.py:450-458)
AfterRemote(pot, rm) ==
    IF ~rm.raised /\ rm.status = 200 /\ HasMarker(rm.text)
    THEN Pot(rm.text, "remote")
    ELSE pot

\* a mutant of UseLocal: the local file is read whatever was obtained
UseLocalAlways(pot) ==
    TRUE

\* if not pot_data: before the local read (app.py:460)
UseLocal(pot) ==
    Falsy(pot)

\* the third try block (app.py:461-465): whatever the file holds is taken
AfterLocal(pot, lo) ==
    IF ~lo.raised THEN Pot(lo.text, "local") ELSE pot

\* a mutant of EntryTriple: the context is not exported
EntryTripleNoContext(e) ==
    <<e.msgid, "", e.msgstr>>

\* [e.msgid, e.msgctxt or "", e.msgstr or ""] (app.py:477, 484)
EntryTriple(e) ==
    <<e.msgid, IF Truthy(e.msgctxt) THEN e.msgctxt ELSE "", e.msgstr>>

\* output formats asked for, as characters: "json" and "CSV"
Formats == {<<"j", "s", "o", "n">>, <<"C", "S", "V">>}

\* the response body (app.py:472-485): a CSV document with its header row,
\* or a JSON list of objects
ExportBody(fmt, entries) ==
    IF LowerStr(fmt) = <<"c", "s", "v">>
    THEN [type |-> "csv",
          rows |-> <<<<"Original", "Context", "Translation">>>>
                     \o [i \in 1..Len(entries) |-> EntryTriple(entries[i])]]
    ELSE [type |-> "json",
          rows |-> [i \in 1..Len(entries) |->
                      [Original |-> EntryTriple(entries[i])[1],
                       Context |-> EntryTriple(entries[i])[2],
                       Translation |-> EntryTriple(entries[i])[3]]]]

NoBody == [type |-> "none", rows |-> <<>>]

\* tenants (store_name) and locales (language_code)
Stores == {"a", "b"}
Langs == {"zh_TW", "zh_CN"}

\* what the handler has called and obtained once the sources it consults
\* have answered g, rm, lo (Skipped for a source it does not consult)
Downloaded(store, fmt, g, rm, lo, pot) ==
    LET lines == pot.lines
        parsed == pofile(lines)
        status == IF Falsy(pot) \/ ~parsed.ok THEN 500 ELSE 200
    IN  [kind |-> "download",
         store |-> store,
         fmt |-> fmt,
         afterImport |-> (last.kind = "upload" /\ last.status = 200),
         gen |-> g,
         remote |-> rm,
         local |-> lo,
         consulted |-> <<"generate">>
                         \o (IF rm.asked THEN <<"remote">> ELSE <<>>)
                         \o (IF lo.asked THEN <<"local">> ELSE <<>>),
         source |-> IF status = 200 THEN pot.from ELSE "none",
         status |-> status,
         body |-> IF status = 200 THEN ExportBody(fmt, parsed.entries)
                  ELSE NoBody]

\* client.containers.get(SHARED_WP_NAME) raises NotFound (app.py:432), which
\* nothing catches
DownloadNotFound(store, fmt) ==
    [kind |-> "download",
     store |-> store,
     fmt |-> fmt,
     afterImport |-> (last.kind = "upload" /\ last.status = 200),
     gen |-> Skipped,
     remote |-> Skipped,
     local |-> Skipped,
     consulted |-> <<>>,
     source |-> "none",
     status |-> 500,
     body |-> NoBody]

\* the local read, when it is made
DownloadLocal(store, fmt, g, rm, pot) ==
    IF UseLocal(pot)
    THEN \E lo \in LocalOutcomes :
            last' = Downloaded(store, fmt, g, rm, lo, AfterLocal(pot, lo))
    ELSE last' = Downloaded(store, fmt, g, rm, Skipped, pot)

\* the remote fetch, when it is made, then the rest
DownloadRemote(store, fmt, g, pot) ==
    IF UseRemote(pot)
    THEN \E rm \in RemoteOutcomes :
            DownloadLocal(store, fmt, g, rm, AfterRemote(pot, rm))
    ELSE DownloadLocal(store, fmt, g, Skipped, pot)

\* the whole handler
Download ==
    /\ nOps < MaxOps
    /\ \E store \in Stores, fmt \in Formats :
        IF wpCount > 0
        THEN \E g \in GenOutcomes :
                DownloadRemote(store, fmt, g, AfterGenerate(g))
        ELSE last' = DownloadNotFound(store, fmt)
    /\ nOps' = nOps + 1
    /\ UNCHANGED <<langDir, tmpCount, lastCatalog, dockerVars, wpVars,
                   envVars, reqVars, slugVars, waitVars>>

-----------------------------------------------------------------------------
(* upload_transcriptions (app.py:488-496), upload_csv, upload_json *)

RECURSIVE Split(_, _)
\* s.split(sep)
Split(s, sep) ==
    IF \A i \in 1..Len(s) : s[i] # sep THEN <<s>>
    ELSE LET i == CHOOSE j \in 1..Len(s) :
                      s[j] = sep /\ \A k \in 1..(j - 1) : s[k] # sep
         IN  <<SubSeq(s, 1, i - 1)>> \o Split(SubSeq(s, i + 1, Len(s)), sep)

\* a mutant of file_extension: the extension is not lower-cased
ExtensionAsWritten(filename) ==
    Split(filename, ".")[Len(Split(filename, "."))]

\* file.filename.split(".")[-1].lower() (app.py:491)
file_extension(filename) ==
    LowerStr(Split(filename, ".")[Len(Split(filename, "."))])

\* the if / elif / raise of app.py:492-496
Dispatch(ext) ==
    IF ext = <<"c", "s", "v">> THEN "csv"
    ELSE IF ext = <<"j", "s", "o", "n">> THEN "json"
    ELSE "reject"

\* names of uploaded files: x.csv, x.CsV, csv, x.json, x.txt.json, x.txt,
\* x.csv.txt, x.
FileNames ==
    {<<"x", ".", "c", "s", "v">>,
     <<"x", ".", "C", "s", "V">>,
     <<"c", "s", "v">>,
     <<"x", ".", "j", "s", "o", "n">>,
     <<"x", ".", "t", "x", "t", ".", "j", "s", "o", "n">>,
     <<"x", ".", "t", "x", "t">>,
     <<"x", ".", "c", "s", "v", ".", "t", "x", "t">>,
     <<"x", ".">>}

\* the whole handler, for a file whose body is drawn from bodies: the
\* dispatch, then upload_csv (app.py:346-375) or upload_json (app.py:378-408):
\* the container is looked up, the catalog is built, saved under a fresh
\* temporary name in both forms, both files are copied into the language
\* directory and the cache is flushed
UploadTranscriptions(bodies) ==
    /\ nOps < MaxOps
    /\ \E f \in FileNames, lang \in Langs, store \in Stores, body \in bodies :
        LET route == Dispatch(file_extension(f))
            found == wpCount > 0
            imp == IF route = "reject" THEN Refused(400)
                   ELSE IF ~found THEN Refused(500)
                   ELSE IF route = "csv" THEN ImportCsv(body)
                   ELSE ImportJson(body)
            k == tmpCount + 1
        IN  /\ last' =
                 [kind |-> "upload",
                  store |-> store,
                  lang |-> lang,
                  filename |-> f,
                  body |-> body,
                  route |-> route,
                  status |-> imp.status,
                  entries |-> Len(imp.catalog),
                  catalog |-> imp.catalog,
                  tmp |-> IF imp.ok THEN k ELSE 0,
                  calls |-> IF route = "reject" THEN <<>>
                            ELSE IF ~imp.ok THEN <<"get">>
                            ELSE <<"get", "mkdir", "put_archive", "mkdir",
                                   "put_archive", "cache_flush">>]
            /\ IF imp.ok
               THEN /\ langDir' =
                         copy_to_container(
                             copy_to_container(langDir, PoFile(k, lang, imp.catalog)),
                             MoFile(k, lang, imp.catalog))
                    /\ tmpCount' = k
                    /\ lastCatalog' = imp.catalog
               ELSE UNCHANGED <<langDir, tmpCount, lastCatalog>>
    /\ nOps' = nOps + 1
    /\ UNCHANGED <<dockerVars, wpVars, envVars, reqVars, slugVars, waitVars>>

-----------------------------------------------------------------------------
(* Bodies of uploaded files *)

Cells == {"", "a"}

\* CSV lines of up to three cells, the blank line included
Lines == UNION {[1..k -> Cells] : k \in 0..3}

Headers ==
    {<<"Original", "Context", "Translation">>, <<"Translation", "Original">>}

CsvBodies ==
    {CsvBody(h, l) : h \in Headers,
                     l \in UNION {[1..n -> Lines] : n \in 0..MaxRows}}

\* JSON rows: an object whose values are strings or null or are missing, or
\* a value that is no object
JsonRows ==
    {JsonRow(TRUE, o, c, t) : o \in {None, "", "a"}, c \in {None, "a"},
                              t \in {None, "", "a"}}
        \cup {JsonRow(FALSE, None, None, None)}

JsonBodies ==
    {JsonBody(FALSE, <<>>)}
        \cup {JsonBody(TRUE, r) : r \in UNION {[1..n -> JsonRows] : n \in 0..MaxRows}}

AllBodies == CsvBodies \cup JsonBodies

\* a few bodies for runs of several requests: CSV documents of two lines
\* that give different entries and a line with no source string, a JSON list
\* of one row and a JSON value that is no list
SampleLines ==
    {<<>>,
     <<<<"a", "", "a">>>>,
     <<<<"a", "a", "">>>>,
     <<<<"a", "", "a">>, <<"a", "a", "">>>>,
     <<<<"a", "a", "">>, <<"a", "", "a">>>>,
     <<<<"", "a", "a">>, <<"a", "", "a">>>>}

SampleBodies ==
    {CsvBody(<<"Original", "Context", "Translation">>, l) : l \in SampleLines}
        \cup {JsonBody(FALSE, <<>>),
              JsonBody(TRUE, <<JsonRow(TRUE, "a", "a", "a")>>)}

-----------------------------------------------------------------------------
(* SpecImport: one upload of any body.  SpecXlate: runs of uploads and      *)
(* downloads.                                                               *)

\* the application container is there or not; nothing else is modelled of
\* the provisioning
XlateInit ==
    /\ wpCount \in {0, 1}
    /\ netCount = wpCount
    /\ dbCount = wpCount
    /\ cliInstalled = (wpCount = 1)
    /\ coreInstalled = (wpCount = 1)
    /\ sites = {}
    /\ ShopEmpty
    /\ RequestsInit
    /\ EnvIdle
    /\ XlateIdle
    /\ SlugIdle
    /\ WaitIdle

ImportOnce ==
    nOps = 0 /\ UploadTranscriptions(AllBodies)

SpecImport == XlateInit /\ [][ImportOnce]_vars

Upload ==
    UploadTranscriptions(SampleBodies)

XlateNext ==
    \/ Upload
    \/ Download

SpecXlate == XlateInit /\ [][XlateNext]_vars

-----------------------------------------------------------------------------
(* Reading the record of a translation request *)

IsDownload == last.kind = "download"
IsUpload == last.kind = "upload"

\* a source was consulted and gave text that contains the marker
GenYielded ==
    last.gen.asked /\ ~last.gen.raised /\ HasMarker(last.gen.text)
RemoteYielded ==
    /\ last.remote.asked /\ ~last.remote.raised
    /\ last.remote.status = 200 /\ HasMarker(last.remote.text)
LocalYielded ==
    last.local.asked /\ ~last.local.raised /\ HasMarker(last.local.text)

Consulted(source) ==
    \E i \in 1..Len(last.consulted) : last.consulted[i] = source

\* the source / context / translation triples of a response body
BodyTriples(body) ==
    IF body.type = "csv"
    THEN [i \in 1..(Len(body.rows) - 1) |-> body.rows[i + 1]]
    ELSE [i \in 1..Len(body.rows) |->
            <<body.rows[i].Original, body.rows[i].Context,
              body.rows[i].Translation>>]

\* the triple of a catalog entry, an absent context being the empty string
TripleOf(e) ==
    <<e.msgid, IF e.msgctxt = None THEN "" ELSE e.msgctxt, e.msgstr>>

-----------------------------------------------------------------------------
(* C3 *)

\* C3: a download consults the sources in the order generate, remote, local;
\* the remote fetch is made only (and then always) if the generation gave no
\* text with the marker, the local file is read only (and then always) if the
\* remote fetch gave none either; after a successful remote fetch the local
\* file is not read, after a successful generation neither is consulted.
C3_FallbackOrder ==
    IsDownload =>
        /\ last.consulted \in {<<>>, <<"generate">>, <<"generate", "remote">>,
                               <<"generate", "remote", "local">>}
        /\ Consulted("remote") <=> (Consulted("generate") /\ ~GenYielded)
        /\ Consulted("local") <=> (Consulted("remote") /\ ~RemoteYielded)
        /\ RemoteYielded => ~Consulted("local")
        /\ GenYielded => last.consulted = <<"generate">>

\* a download whose generation gave nothing and whose remote fetch succeeded
C3_Witness ==
    /\ IsDownload
    /\ last.consulted = <<"generate", "remote">>
    /\ RemoteYielded
    /\ last.status = 200

-----------------------------------------------------------------------------
(* C4 *)

FirstMarked ==
    IF GenYielded THEN "generate"
    ELSE IF RemoteYielded THEN "remote"
    ELSE IF LocalYielded THEN "local"
    ELSE "none"

\* C4, as stated: the template returned is that of the first source whose
\* text contains the marker, and the request fails with HTTP 500 exactly
\* when no source gives text with the marker.
C4_FirstMarkedSourceWins ==
    IsDownload =>
        /\ last.status = 500 <=> FirstMarked = "none"
        /\ last.status = 200 => last.source = FirstMarked

-----------------------------------------------------------------------------
(* C5 *)

NonEmptySource(row) ==
    row.Original # None /\ row.Original # ""

\* the rows of the uploaded document, as the import that was chosen reads it
UploadedRows ==
    IF last.route = "csv" THEN CsvRowsOf(last.body) ELSE last.body.rows

\* C5: the catalog of a successful upload holds one entry for each row whose
\* source string is not empty, in the order of the rows, and none for the
\* other rows; the count returned is the number of those rows; the catalog
\* file deployed holds these entries.
C5_OneEntryPerSourceRow ==
    (IsUpload /\ last.status = 200) =>
        LET rows == SelectSeq(UploadedRows, NonEmptySource)
        IN  /\ Len(last.catalog) = Len(rows)
            /\ last.entries = Len(rows)
            /\ \A i \in 1..Len(rows) :
                /\ last.catalog[i].msgid = rows[i].Original
                /\ last.catalog[i].msgctxt =
                      (IF rows[i].Context \in {None, ""} THEN None
                       ELSE rows[i].Context)
                /\ last.catalog[i].msgstr =
                      (IF rows[i].Translation \in {None, ""} THEN ""
                       ELSE rows[i].Translation)
            /\ \E f \in langDir :
                /\ f.name = <<"tmp", last.tmp, ".po">>
                /\ pofile(f.lines).ok
                /\ pofile(f.lines).entries = last.catalog

\* an upload of two rows, one of which has no source string
C5_Witness ==
    /\ IsUpload /\ last.status = 200
    /\ Len(UploadedRows) = 2
    /\ last.entries = 1

-----------------------------------------------------------------------------
(* C6 *)

\* C6, as stated: an export made right after the import of a catalog of one
\* entry returns that entry's triple.
C6_RoundTrip ==
    (IsDownload /\ last.afterImport /\ Len(lastCatalog) = 1 /\ last.status = 200) =>
        BodyTriples(last.body) = <<TripleOf(lastCatalog[1])>>

\* the text of the source that the chain stops at
WinningText ==
    IF GenYielded THEN StripText(last.gen.text)
    ELSE IF RemoteYielded THEN last.remote.text
    ELSE last.local.text

\* C6, amended: an export made right after an import returns the triples of
\* the template that the chain of sources gives (generated, else fetched,
\* else the local file), whatever was imported.
C6_ExportReturnsTemplate ==
    (IsDownload /\ last.afterImport /\ last.status = 200) =>
        /\ pofile(WinningText).ok
        /\ BodyTriples(last.body) =
              [i \in 1..Len(pofile(WinningText).entries) |->
                  TripleOf(pofile(WinningText).entries[i])]

\* an export right after the import of one entry returned the fetched
\* template, whose entry has a context
C6_Witness ==
    /\ IsDownload /\ last.afterImport /\ last.status = 200
    /\ Len(lastCatalog) = 1
    /\ last.source = "remote"
    /\ BodyTriples(last.body) = <<<<"b", "a", "">>>>

-----------------------------------------------------------------------------
(* C7 *)

\* C7, as stated: after a successful upload for a locale, the files of that
\* locale in the language directory are the two files of this upload and
\* their catalog is the catalog of this upload.
C7_UploadReplacesCatalog ==
    (IsUpload /\ last.status = 200) =>
        \A f \in langDir :
            f.language = last.lang =>
                /\ f.name[2] = last.tmp
                /\ f.name[3] = ".po" => pofile(f.lines).entries = last.catalog

-----------------------------------------------------------------------------
(* C8 *)

\* the text after the last "." of a name (the name when it has no ".")
AfterLastDot(name) ==
    LET dots == {i \in 1..Len(name) : name[i] = "."}
        k == IF dots = {} THEN 0 ELSE CHOOSE i \in dots : \A j \in dots : j <= i
    IN  SubSeq(name, k + 1, Len(name))

\* C8: an upload is routed by the lower-cased text after the last "." of the
\* file name: "csv" to the tabular import, "json" to the structured import;
\* any other extension is answered HTTP 400 and nothing is looked up, built
\* or deployed.
C8_ExtensionDispatch ==
    [][(nOps' # nOps /\ last'.kind = "upload") =>
        LET ext == LowerStr(AfterLastDot(last'.filename))
            u == last'
        IN  /\ ext = <<"c", "s", "v">> =>
                  /\ u.route = "csv"
                  /\ wpCount > 0 =>
                        u.status = 200 /\ u.catalog = ImportCsv(u.body).catalog
            /\ ext = <<"j", "s", "o", "n">> =>
                  /\ u.route = "json"
                  /\ wpCount > 0 =>
                        /\ u.status = ImportJson(u.body).status
                        /\ u.catalog = ImportJson(u.body).catalog
            /\ ext \notin {<<"c", "s", "v">>, <<"j", "s", "o", "n">>} =>
                  /\ u.route = "reject"
                  /\ u.status = 400
                  /\ u.calls = <<>>
                  /\ u.catalog = <<>>
                  /\ UNCHANGED <<langDir, tmpCount, lastCatalog>>]_vars

\* x.txt has been refused
C8_Witness ==
    /\ IsUpload
    /\ last.filename = <<"x", ".", "t", "x", "t">>
    /\ last.status = 400

-----------------------------------------------------------------------------
(* SpecSetup: one create_shop request on its own, for any locale, with      *)
(* commands that fail                                                       *)

\* the daemon is empty or holds the three resources with wp-cli and the
\* network core installed; the first request is the only one
SetupInit ==
    /\ wpCount \in {0, 1}
    /\ netCount = wpCount
    /\ dbCount = wpCount
    /\ cliInstalled = (wpCount = 1)
    /\ coreInstalled = (wpCount = 1)
    /\ sites = {}
    /\ ShopEmpty
    /\ pc = [r \in Reqs |-> IF r = 1 THEN "idle" ELSE "done"]
    /\ req = [r \in Reqs |-> NoReq]
    /\ slug = [r \in Reqs |-> <<>>]
    /\ elapsed = [r \in Reqs |-> 0]
    /\ waitRet = [r \in Reqs |-> "none"]
    /\ step = [r \in Reqs |-> 0]
    /\ trace = [r \in Reqs |-> <<>>]
    /\ failed = [r \in Reqs |-> {}]
    /\ zoneMade = [r \in Reqs |-> <<>>]
    /\ resp = [r \in Reqs |-> 0]
    /\ clientNames = {<<"a">>}
    /\ clientLocales = Locales
    /\ faultBudget = MaxSetupFaults
    /\ XlateIdle
    /\ SlugIdle
    /\ WaitIdle

SpecSetup == SetupInit /\ [][Next]_vars

-----------------------------------------------------------------------------
(* Reading the commands of a request *)

IsExec(call) == call[2] = "exec"

\* the names of the commands run in the application container, in order
ExecCmds(t) ==
    LET x == SelectSeq(t, IsExec) IN [i \in 1..Len(x) |-> x[i][3]]

\* the commands of provision_multi in the order of the code
ProvisionCmds ==
    <<"info", "install_cli", "apt_packages", "memory_limit", "php_info",
      "core_is_installed", "core_multisite_install", "htaccess",
      "site_create">>

\* the commands of setup_shop and of provision_multi, as sets
SetupCmds_Set == {SetupCmds[i] : i \in 1..Len(SetupCmds)}
ProvisionCmds_Set == {ProvisionCmds[i] : i \in 1..Len(ProvisionCmds)}

\* the two commands that are issued on a condition
ConditionalCmds == {"install_cli", "core_multisite_install"}

\* a sequence without the elements of a set
Without(seq, S) ==
    LET keep(c) == c \notin S IN SelectSeq(seq, keep)

Issued(r, cmd) ==
    \E i \in 1..Len(trace[r]) : trace[r][i] = <<"wp", "exec", cmd>>

-----------------------------------------------------------------------------
(* C13 *)

\* the lookup of the claim
CurrencyOf(locale) ==
    CASE locale = "en_US" -> <<"USD">>
      [] locale = "zh_TW" -> <<"TWD">>
      [] locale = "zh_CN" -> <<"CNY">>
      [] locale = "zh_HK" -> <<"HKD">>
      [] OTHER -> Unset

\* C13, as stated: after a request all of whose commands succeeded, the
\* currency option of the tenant site holds the code mapped to the locale of
\* the request when the locale is one of the four keys, and is unset for any
\* other locale.
C13_CurrencyByLocale ==
    \A r \in Reqs :
        (resp[r] = 200 /\ failed[r] = {}) =>
            options[slug[r]]["woocommerce_currency"] = CurrencyOf(req[r].locale)

-----------------------------------------------------------------------------
(* C15 *)

\* C15: a request for a supported mode ends with HTTP 200 unless
\* wait_for_mysql returned False, whatever commands failed; a request that
\* ended with 200 has issued all the commands of provision_multi and
\* setup_shop in the order of the code, the installation of wp-cli exactly
\* when the info query failed, and the installation of the network at most.
C15_FailuresNeverAbort ==
    \A r \in Reqs :
        (pc[r] = "done" /\ req[r].mode = "multi") =>
            /\ resp[r] = 200 \/ (resp[r] = 500 /\ waitRet[r] = "False")
            /\ resp[r] = 200 =>
                /\ \E S \in SUBSET ConditionalCmds :
                      ExecCmds(trace[r]) =
                          Without(ProvisionCmds, S) \o SetupCmds
                /\ Issued(r, "install_cli") <=> "info" \in failed[r]

\* a request was answered 200 though a provisioning command and a setup
\* command that could have succeeded failed
C15_Witness ==
    /\ resp[1] = 200
    /\ "htaccess" \in failed[1]
    /\ "woo_install" \in failed[1]
    /\ faultBudget = MaxSetupFaults - 2

-----------------------------------------------------------------------------
(* SpecConc: create_shop requests served concurrently.  The endpoint is a  *)
(* plain function, which the framework runs on a pool of threads; nothing  *)
(* in the code serialises two requests.                                    *)

ConcInit ==
    /\ DockerEmpty
    /\ RequestsInit
    /\ clientNames = {<<"a">>, <<"b">>}
    /\ clientLocales = {"en_US"}
    /\ faultBudget = 0
    /\ XlateIdle
    /\ SlugIdle
    /\ WaitIdle

ConcNext ==
    \E r \in Reqs : Step(r)

SpecConc == ConcInit /\ [][ConcNext]_vars

\* the create calls issued for a resource, over all requests
CreateCalls(what) ==
    {<<r, i>> \in Reqs \X (1..30) :
        /\ i <= Len(trace[r])
        /\ trace[r][i][1] = what
        /\ trace[r][i][2] = "create"}

-----------------------------------------------------------------------------
(* C11 *)

\* C11, as stated: in any interleaving of requests the create call for each
\* of the three shared resources is issued at most once over all requests,
\* and there is at most one network, database container and application
\* container.
C11_CreatedAtMostOnce ==
    /\ \A what \in {"net", "db", "wp"} : Cardinality(CreateCalls(what)) <= 1
    /\ netCount <= 1 /\ dbCount <= 1 /\ wpCount <= 1

-----------------------------------------------------------------------------
(* C12 *)

\* return {"slug": store_name, "url": f"http://localhost:8080/{store_name}"}
\* (app.py:291)
SiteDescriptor(r) ==
    [slug |-> slug[r],
     url |-> <<"http://localhost:8080/">> \o slug[r]]

\* C12, as stated: no two requests with different site names are both
\* answered 200 with the same slug and URL.
C12_SlugsUnique ==
    \A r1, r2 \in Reqs :
        (/\ r1 # r2
         /\ resp[r1] = 200 /\ resp[r2] = 200
         /\ req[r1].name # req[r2].name) =>
            SiteDescriptor(r1) # SiteDescriptor(r2)

-----------------------------------------------------------------------------
(* C14 *)

\* C14, as stated: once the first command of setup_shop has been issued for
\* a request, the tenant site of its slug exists, the site creation has been
\* issued, and the commands issued before it are those of provision_multi in
\* the order of the code, after the database was found ready.
C14_SetupOnlyOnceSiteExists ==
    \A r \in Reqs :
        Issued(r, SetupCmds[1]) =>
            /\ slug[r] \in sites
            /\ waitRet[r] = "True"
            /\ \E S \in SUBSET ConditionalCmds :
                  Without(ExecCmds(trace[r]), SetupCmds_Set) =
                      Without(ProvisionCmds, S)

-----------------------------------------------------------------------------
(* C16 *)

\* C16, as stated: the installation of the network is issued only after
\* the installation check of the same request, and once a request has issued
\* it with success no later request issues it.
C16_NetworkInstalledOnce ==
    \A r \in Reqs :
        /\ Issued(r, "core_multisite_install") => Issued(r, "core_is_installed")
        /\ \A q \in 1..(r - 1) :
              (/\ Issued(q, "core_multisite_install")
               /\ "core_multisite_install" \notin failed[q]) =>
                  ~Issued(r, "core_multisite_install")

-----------------------------------------------------------------------------
(* C17 *)

\* the commands of ensure_wp_cli
CliCmds ==
    {"info", "install_cli", "apt_packages", "memory_limit", "php_info"}

\* C17, as stated: a call of ensure_wp_cli whose info query succeeded has
\* run the info query and nothing else; the installation of wp-cli is run
\* only when the info query failed.
C17_BootstrapIsNoOp ==
    \A r \in Reqs :
        /\ Issued(r, "install_cli") => "info" \in failed[r]
        /\ (Issued(r, "core_is_installed") /\ "info" \notin failed[r]) =>
              Without(ExecCmds(trace[r]),
                      (SetupCmds_Set \cup ProvisionCmds_Set) \ CliCmds) =
                  <<"info">>

-----------------------------------------------------------------------------
(* C18 *)

\* C18, as stated: a request that created a shipping zone and attached the
\* flat-rate method has attached it to the zone it created.
C18_MethodOnOwnZone ==
    \A r \in Reqs :
        (/\ resp[r] = 200
         /\ zoneMade[r] # <<>>
         /\ "zone_add_method" \notin failed[r]) =>
            zoneMade[r] \in methods

-----------------------------------------------------------------------------
(* SpecWait: wait_for_mysql (app.py:122-142) on its own, for any timeout *)

Timeouts == (-1)..MaxTimeout

\* seconds one probe takes
WaitDurations == {0, 1}

WaitInit ==
    /\ wTimeout \in Timeouts
    /\ wElapsed = 0
    /\ wProbes = 0
    /\ wSlow = FALSE
    /\ wLastExit = "none"
    /\ wRet = "none"
    /\ DockerEmpty
    /\ RequestsInit
    /\ EnvIdle
    /\ XlateIdle
    /\ SlugIdle

\* one turn of the loop: the probe, then return True or sleep
WaitLoopProbe ==
    /\ wRet = "none"
    /\ LoopContinues(wElapsed, wTimeout)
    /\ \E o \in ProbeOutcomes, d \in WaitDurations :
        /\ wProbes' = wProbes + 1
        /\ wLastExit' = o
        /\ wSlow' = (wSlow \/ d > 0)
        /\ IF ProbeSucceeded(o)
           THEN /\ wRet' = "True"
                /\ wElapsed' = wElapsed + d
           ELSE /\ wRet' = "none"
                /\ wElapsed' = wElapsed + d + PROBE_SLEEP
    /\ UNCHANGED <<wTimeout, dockerVars, wpVars, envVars, reqVars, xlateVars,
                   slugVars>>

\* the loop condition fails: return False
WaitLoopExit ==
    /\ wRet = "none"
    /\ ~LoopContinues(wElapsed, wTimeout)
    /\ wRet' = "False"
    /\ UNCHANGED <<wTimeout, wElapsed, wProbes, wSlow, wLastExit, dockerVars,
                   wpVars, envVars, reqVars, xlateVars, slugVars>>

WaitNext ==
    \/ WaitLoopProbe
    \/ WaitLoopExit

\* the thread that runs wait_for_mysql is scheduled
SpecWait == WaitInit /\ [][WaitNext]_vars /\ WF_vars(WaitNext)

-----------------------------------------------------------------------------
(* C19 *)

\* the least n with 3 * n >= t, for t >= 0
CeilThird(t) ==
    CHOOSE n \in 0..(t + 1) : 3 * n >= t /\ (n = 0 \/ 3 * (n - 1) < t)

WaitStateOk ==
    /\ wRet = "True" => (wLastExit = "exit0" /\ wProbes >= 1)
    /\ wRet = "False" => (wLastExit # "exit0" /\ wElapsed >= wTimeout)
    /\ wTimeout <= 0 => (wProbes = 0 /\ wRet # "True")
    /\ (~wSlow /\ wTimeout > 0) => wProbes <= CeilThird(wTimeout)

WaitStepOk ==
    /\ wProbes' # wProbes =>
          /\ wProbes' = wProbes + 1
          /\ wRet = "none"
          /\ wElapsed < wTimeout
          /\ wLastExit' = "exit0" => wRet' = "True"
          /\ wLastExit' # "exit0" =>
                (wRet' = "none" /\ wElapsed' >= wElapsed + PROBE_SLEEP)
    /\ wRet # "none" => UNCHANGED waitVars

\* C19: wait_for_mysql returns; it probes only while the elapsed time is
\* below the timeout; after a probe that fails or raises it goes on 3 time
\* units later at the earliest; it returns True at the first probe that
\* exits with status 0 and probes no more, and False otherwise; with probes
\* that take no time it issues at most ceil(timeout / 3) probes; with a
\* timeout <= 0 it returns False without a probe.
C19_WaitTerminates ==
    /\ []WaitStateOk
    /\ [][WaitStepOk]_vars
    /\ <>(wRet # "none")

\* the largest timeout has run out after ceil(timeout / 3) probes that took
\* no time, the last of which raised
C19_Witness ==
    /\ wTimeout = MaxTimeout
    /\ wRet = "False"
    /\ ~wSlow
    /\ wProbes = CeilThird(MaxTimeout)
    /\ wLastExit = "raise"

====
